---- MODULE Spec2Model ----
(***************************************************************************)
(* Safe-Pulse: the safety-event engine of src/database.py and              *)
(* src/agent_handlers.py.  The store is the SQLite database (one table per *)
(* entity, keyed by id); every request runs in a thread of its own with a  *)
(* connection of its own (Database.connect), so a handler is a sequence of *)
(* database calls, each of them one committed transaction, and the calls   *)
(* of different threads interleave.                                        *)
(***************************************************************************)
EXTENDS Integers, Sequences, FiniteSets, TLC

\* ---------------------------------------------------------------- bounds
NumThreads == 2
MaxCalls == 5
MaxContacts == 2
MaxRecords == 2

Threads == 1..NumThreads

\* ------------------------------------------------------- program constants
VerifyThreshold_Two == 3 - 1
VerifyThreshold == 3
InitialReportCount == 0
InitialAlertCount == 1

DestinationThresholdM == 100

ReportIds == {"r1"}
AlertIds == {"a1"}
JourneyIds == {"j1"}

\* positions along one road, in metres
Locations == {0, 50, 100, 150}
Destinations == {0, 50}
Risks == {"low", "medium", "high"}
\* an emergency contact as add_emergency_contact stores it; a phone is its
\* digits and whether it carries the leading '+'
ContactChoices ==
    {[name |-> "Asha", phone |-> [plus |-> TRUE, digits |-> "911"]],
     [name |-> "Bina", phone |-> [plus |-> FALSE, digits |-> "922"]],
     [name |-> "", phone |-> [plus |-> FALSE, digits |-> ""]]}

Severities == {"low", "medium", "high"}
\* the severity strings a classifier answer or a caller's alert_data can
\* carry: the three levels and one string outside them
SuppliedSeverities == Severities \cup {"critical"}
\* alert_data["location"] as the caller hands it over: with both coordinates,
\* or a dict without them
AlertLocations == {"complete", "incomplete"}
VerificationTypes == {"confirm", "dispute"}
\* what agent.run / json.loads can do: raise, return text that does not parse,
\* or return a JSON object
AgentOutcomes == {"malformed", "raise", "ok"}
\* resolution_details as resolve_alert tests it: falsy (None, {}) or truthy
ResolutionDetails == {"empty", "given"}

VARIABLES
    reports,      \* table reports: id -> row
    alerts,       \* table alerts: id -> row
    journeys,     \* table journeys: id -> row
    emergency_contacts, \* table emergency_contacts, in insertion order
    sos_history,  \* table sos_history, in insertion order
    sms_enabled,  \* SMSService.enabled: Twilio credentials are configured
    clock,        \* datetime.now(), as the number of timestamps taken so far
    pc,           \* per thread: the position inside the handler it runs
    local,        \* per thread: the handler's arguments and the row it read
    calls,        \* number of handler calls begun
    nconfirm,     \* per record id: confirm calls whose write has committed
    nescal,       \* per record id: escalation writes done by confirms
    jwrites,      \* per journey id: <<status the handler's get_journey returned,
                  \*   status its update_journey_status wrote>>
    last,         \* the database write done by the last step
    result,       \* what the last step returned to the handler's caller
    nsos,         \* number of send_sos_notifications invocations so far
    sms_results,  \* the per-contact results of the latest invocation
    status_writer, \* per report id: the kind of the last verify_report call
                  \*   that wrote the status column ("" before the first)
    active_journey \* st.session_state.active_journey of the browser session:
                  \*   the journey id it holds, "" for None

vars == <<reports, alerts, journeys, emergency_contacts, sos_history, sms_enabled, clock, pc, local, calls,
          nconfirm, nescal, status_writer, active_journey, jwrites, last, result, nsos, sms_results>>

Idle == [id |-> "", vtype |-> "", count |-> 0, severity |-> "", status |-> "",
         within |-> FALSE]
NoWrite == [op |-> "none", id |-> ""]
\* a handler's response: status is "success", "error" (the structured
\* failure) or "raised" (an exception left the handler); agent is what the
\* classifier did in this call
NoResult == [call |-> "none", status |-> "", id |-> "", agent |-> "", severity |-> "",
             overall_risk |-> "", destination_reached |-> FALSE, notified |-> 0,
             authorities_alerted |-> FALSE, safety_score |-> 0, end_time |-> 0,
             latitude |-> 0, longitude |-> 0, radius_km |-> 0, rows |-> <<>>,
             details |-> ""]
Response(call, status, id) == [NoResult EXCEPT !.call = call, !.status = status, !.id = id]
NoSms == UNCHANGED <<nsos, sms_results>>

Init ==
    /\ reports = <<>>
    /\ alerts = <<>>
    /\ journeys = <<>>
    /\ emergency_contacts = <<>>
    /\ sos_history = <<>>
    /\ sms_enabled \in BOOLEAN
    /\ clock = 0
    /\ pc = [t \in Threads |-> "idle"]
    /\ local = [t \in Threads |-> Idle]
    /\ calls = 0
    /\ nconfirm = [r \in ReportIds \cup AlertIds |-> 0]
    /\ nescal = [r \in ReportIds \cup AlertIds |-> 0]
    /\ jwrites = [j \in JourneyIds |-> {}]
    /\ last = NoWrite
    /\ result = NoResult
    /\ nsos = 0
    /\ sms_results = <<>>
    /\ status_writer = [r \in ReportIds |-> ""]
    /\ active_journey = ""

\* a handler call begins: the thread is idle and the call budget is not spent
Begin(t) ==
    /\ pc[t] = "idle"
    /\ calls < MaxCalls
    /\ calls' = calls + 1

Put(tbl, id, row) == [k \in DOMAIN tbl \cup {id} |-> IF k = id THEN row ELSE tbl[k]]

\* ------------------------------------------------------------ reports
\* Database.create_report: the INSERT
NewReport(severity) ==
    [status |-> "submitted", verification_count |-> InitialReportCount,
     severity |-> severity]

\* IncidentReportingHandler.submit_report
submit_report(t) ==
    /\ Begin(t)
    /\ \E id \in ReportIds \ DOMAIN reports, outcome \in AgentOutcomes,
          sev \in SuppliedSeverities :
          IF outcome = "ok"
          THEN /\ reports' = Put(reports, id, NewReport(sev))
               /\ last' = [op |-> "create_report", id |-> id]
               /\ result' = [Response("submit_report", "success", id) EXCEPT
                                 !.agent = outcome, !.severity = sev]
          ELSE \* agent.run raised (propagates) or json.loads raised (fallback
               \* response is returned without create_report)
               /\ reports' = reports
               /\ last' = NoWrite
               /\ result' = IF outcome = "raise"
                            THEN [Response("submit_report", "raised", "") EXCEPT
                                     !.agent = outcome]
                            ELSE [Response("submit_report", "success", id) EXCEPT
                                     !.agent = outcome, !.severity = "medium"]
    /\ NoSms
    /\ UNCHANGED <<alerts, journeys, emergency_contacts, sos_history, sms_enabled, clock, pc, local, nconfirm, nescal, status_writer, active_journey, jwrites>>

ReportAfterVerify_DisputeResetsCount(row, count, vtype) ==
    IF vtype = "confirm"
    THEN IF count + 1 >= VerifyThreshold
         THEN [row EXCEPT !.verification_count = count + 1, !.status = "verified"]
         ELSE [row EXCEPT !.verification_count = count + 1]
    ELSE [row EXCEPT !.status = "disputed", !.verification_count = 0]

ReportAfterVerify_VerifiedWithstandsDispute(row, count, vtype) ==
    IF vtype = "confirm"
    THEN IF count + 1 >= VerifyThreshold
         THEN [row EXCEPT !.verification_count = count + 1, !.status = "verified"]
         ELSE [row EXCEPT !.verification_count = count + 1]
    ELSE IF row.status = "verified" THEN row ELSE [row EXCEPT !.status = "disputed"]

ReportAfterVerify_ConfirmRaisesSeverity(row, count, vtype) ==
    IF vtype = "confirm"
    THEN IF count + 1 >= VerifyThreshold
         THEN [row EXCEPT !.verification_count = count + 1, !.status = "verified",
                          !.severity = "high"]
         ELSE [row EXCEPT !.verification_count = count + 1]
    ELSE [row EXCEPT !.status = "disputed"]

\* Database.verify_report, the row after the UPDATEs of one call; count is
\* the verification_count the SELECT of this call returned
ReportAfterVerify(row, count, vtype) ==
    IF vtype = "confirm"
    THEN IF count + 1 >= VerifyThreshold
         THEN [row EXCEPT !.verification_count = count + 1, !.status = "verified"]
         ELSE [row EXCEPT !.verification_count = count + 1]
    ELSE [row EXCEPT !.status = "disputed"]

\* Database.verify_report: the SELECT
verify_report_select(t) ==
    /\ Begin(t)
    /\ \E id \in ReportIds, vtype \in VerificationTypes :
          IF id \in DOMAIN reports
          THEN /\ pc' = [pc EXCEPT ![t] = "verify_report_update"]
               /\ local' = [local EXCEPT ![t] = [Idle EXCEPT !.id = id, !.vtype = vtype,
                                !.count = reports[id].verification_count,
                                !.severity = reports[id].severity]]
               /\ result' = NoResult
          ELSE \* return False: "Report not found"
               /\ UNCHANGED <<pc, local>>
               /\ result' = Response("verify_report", "error", id)
    /\ last' = NoWrite
    /\ NoSms
    /\ UNCHANGED <<reports, alerts, journeys, emergency_contacts, sos_history, sms_enabled, clock, nconfirm, nescal, status_writer, active_journey, jwrites>>

\* Database.verify_report: the UPDATEs and the commit
verify_report_update(t) ==
    /\ pc[t] = "verify_report_update"
    /\ LET id == local[t].id
           vtype == local[t].vtype
           count == local[t].count
       IN /\ reports' = [reports EXCEPT ![id] = ReportAfterVerify(@, count, vtype)]
          /\ nconfirm' = [nconfirm EXCEPT ![id] = IF vtype = "confirm" THEN @ + 1 ELSE @]
          /\ nescal' = [nescal EXCEPT ![id] =
                           IF vtype = "confirm" /\ count + 1 >= VerifyThreshold
                           THEN @ + 1 ELSE @]
          /\ status_writer' = [status_writer EXCEPT ![id] =
                                   IF vtype = "dispute"
                                         \/ reports'[id].verification_count >= 3
                                   THEN vtype ELSE @]
          /\ last' = [op |-> vtype, id |-> id]
          /\ result' = Response("verify_report", "success", id)
    /\ NoSms
    /\ pc' = [pc EXCEPT ![t] = "idle"]
    /\ local' = [local EXCEPT ![t] = Idle]
    /\ UNCHANGED <<alerts, journeys, emergency_contacts, sos_history, sms_enabled, clock, calls, jwrites,
                   active_journey>>

\* ------------------------------------------------------ notifications
\* SMSService.send_sms: the status of the result; delivered says whether
\* the Twilio call went through
send_sms(enabled, delivered) ==
    IF ~enabled THEN "simulated" ELSE IF delivered THEN "sent" ELSE "error"

\* SMSService.send_sos_notifications, the phone a message is sent to
WithCountryCode(phone) == [phone EXCEPT !.plus = TRUE]

\* SMSService.send_sos_notifications: one result per contact with a phone;
\* delivered[i] is the gateway's answer for contact i
RECURSIVE send_sos_notifications(_, _, _)
send_sos_notifications(contacts, enabled, delivered) ==
    IF contacts = <<>> THEN <<>>
    ELSE LET n == Len(contacts)
             contact == contacts[n]
             rest == send_sos_notifications(SubSeq(contacts, 1, n - 1), enabled, delivered)
         IN IF contact.phone.digits = "" /\ ~contact.phone.plus
            THEN rest
            ELSE Append(rest, [status |-> send_sms(enabled, delivered[n]),
                               contact_name |-> contact.name,
                               contact_phone |-> WithCountryCode(contact.phone)])

RECURSIVE ContactsNotified_All(_)
ContactsNotified_All(results) ==
    IF results = <<>> THEN <<>>
    ELSE Append(ContactsNotified_All(SubSeq(results, 1, Len(results) - 1)),
                results[Len(results)].contact_phone)

\* trigger_emergency: the contacts_notified list handed to create_sos
RECURSIVE ContactsNotified(_)
ContactsNotified(results) ==
    IF results = <<>> THEN <<>>
    ELSE LET n == Len(results)
             rest == ContactsNotified(SubSeq(results, 1, n - 1))
         IN IF results[n].status \in {"sent", "simulated"}
            THEN Append(rest, results[n].contact_phone)
            ELSE rest

\* ------------------------------------------------------------- alerts
NewAlert_CountZero(severity) ==
    [status |-> "active", verification_count |-> 0, severity |-> severity]

\* Database.create_alert: the INSERT
NewAlert(severity) ==
    [status |-> "active", verification_count |-> InitialAlertCount,
     severity |-> severity]

\* EmergencyAlertHandler.create_alert: agent.run, create_alert and, for a
\* high severity on the try path, get_emergency_contacts and
\* send_sos_notifications
create_alert(t) ==
    /\ Begin(t)
    /\ \E id \in AlertIds \ DOMAIN alerts, outcome \in AgentOutcomes,
          supplied \in SuppliedSeverities, refined \in SuppliedSeverities,
          location \in AlertLocations,
          delivered \in [1..Len(emergency_contacts) -> BOOLEAN] :
          LET results == send_sos_notifications(emergency_contacts, sms_enabled, delivered)
          IN CASE outcome = "raise" ->
                  \* agent.run is called outside the try block
                  /\ alerts' = alerts
                  /\ last' = NoWrite
                  /\ result' = [Response("create_alert", "raised", "") EXCEPT
                                    !.agent = outcome]
                  /\ NoSms
               [] outcome = "malformed" ->
                  \* the except branch: create_alert with the caller's data
                  /\ alerts' = Put(alerts, id, NewAlert(supplied))
                  /\ last' = [op |-> "create_alert", id |-> id]
                  /\ result' = [Response("create_alert", "success", id) EXCEPT
                                    !.agent = outcome, !.severity = supplied]
                  /\ NoSms
               [] outcome = "ok" ->
                  /\ alerts' = Put(alerts, id, NewAlert(refined))
                  /\ last' = [op |-> "create_alert", id |-> id]
                  /\ CASE refined = "high" /\ emergency_contacts # <<>>
                                            /\ location = "complete" ->
                            /\ nsos' = nsos + 1
                            /\ sms_results' = results
                            /\ result' = [Response("create_alert", "success", id) EXCEPT
                                              !.agent = outcome, !.severity = refined,
                                              !.notified = Len(ContactsNotified(results))]
                       [] refined = "high" /\ emergency_contacts # <<>>
                                            /\ location = "incomplete" ->
                            \* send_sos_notifications raises KeyError on
                            \* location['latitude'] before any send_sms; the
                            \* except branch calls create_alert again with the
                            \* id already stored and the sqlite3.IntegrityError
                            \* of that INSERT leaves the handler
                            /\ NoSms
                            /\ result' = [Response("create_alert", "raised", "") EXCEPT
                                              !.agent = outcome]
                       [] OTHER ->
                            /\ NoSms
                            /\ result' = [Response("create_alert", "success", id) EXCEPT
                                              !.agent = outcome, !.severity = refined]
    /\ UNCHANGED <<reports, journeys, emergency_contacts, sos_history, sms_enabled, clock, pc, local, nconfirm, nescal, status_writer, active_journey, jwrites>>

AlertAfterVerify_DisputeDowngrades(row, count, severity, vtype) ==
    IF vtype = "confirm"
    THEN IF count + 1 >= VerifyThreshold /\ severity # "high"
         THEN [row EXCEPT !.verification_count = count + 1, !.severity = "high"]
         ELSE [row EXCEPT !.verification_count = count + 1]
    ELSE [row EXCEPT !.status = "disputed", !.severity = "medium"]

AlertAfterVerify_ConfirmReactivates(row, count, severity, vtype) ==
    IF vtype = "confirm"
    THEN IF count + 1 >= VerifyThreshold /\ severity # "high"
         THEN [row EXCEPT !.verification_count = count + 1, !.severity = "high",
                          !.status = "active"]
         ELSE [row EXCEPT !.verification_count = count + 1]
    ELSE [row EXCEPT !.status = "disputed"]

\* Database.verify_alert, the row after the UPDATEs of one call; count and
\* severity are what the SELECT of this call returned
AlertAfterVerify(row, count, severity, vtype) ==
    IF vtype = "confirm"
    THEN IF count + 1 >= VerifyThreshold /\ severity # "high"
         THEN [row EXCEPT !.verification_count = count + 1, !.severity = "high"]
         ELSE [row EXCEPT !.verification_count = count + 1]
    ELSE [row EXCEPT !.status = "disputed"]

\* Database.verify_alert: the SELECT
verify_alert_select(t) ==
    /\ Begin(t)
    /\ \E id \in AlertIds, vtype \in VerificationTypes :
          IF id \in DOMAIN alerts
          THEN /\ pc' = [pc EXCEPT ![t] = "verify_alert_update"]
               /\ local' = [local EXCEPT ![t] = [Idle EXCEPT !.id = id, !.vtype = vtype,
                                !.count = alerts[id].verification_count,
                                !.severity = alerts[id].severity]]
               /\ result' = NoResult
          ELSE \* return False: "Alert not found"
               /\ UNCHANGED <<pc, local>>
               /\ result' = Response("verify_alert", "error", id)
    /\ last' = NoWrite
    /\ NoSms
    /\ UNCHANGED <<reports, alerts, journeys, emergency_contacts, sos_history, sms_enabled, clock, nconfirm, nescal, status_writer, active_journey, jwrites>>

\* Database.verify_alert: the UPDATEs and the commit
verify_alert_update(t) ==
    /\ pc[t] = "verify_alert_update"
    /\ LET id == local[t].id
           vtype == local[t].vtype
           count == local[t].count
           severity == local[t].severity
       IN /\ alerts' = [alerts EXCEPT ![id] = AlertAfterVerify(@, count, severity, vtype)]
          /\ nconfirm' = [nconfirm EXCEPT ![id] = IF vtype = "confirm" THEN @ + 1 ELSE @]
          /\ nescal' = [nescal EXCEPT ![id] =
                           IF vtype = "confirm" /\ count + 1 >= VerifyThreshold
                                                /\ severity # "high"
                           THEN @ + 1 ELSE @]
          /\ last' = [op |-> vtype, id |-> id]
          /\ result' = Response("verify_alert", "success", id)
    /\ NoSms
    /\ pc' = [pc EXCEPT ![t] = "idle"]
    /\ local' = [local EXCEPT ![t] = Idle]
    /\ UNCHANGED <<reports, journeys, emergency_contacts, sos_history, sms_enabled, clock, calls, jwrites,
                   status_writer, active_journey>>

\* Database.resolve_alert, the row after the UPDATE without resolution details
AlertAfterResolve(row) == [row EXCEPT !.status = "resolved"]

\* EmergencyAlertHandler.resolve_alert / Database.resolve_alert
resolve_alert(t) ==
    /\ Begin(t)
    /\ \E id \in AlertIds, details \in ResolutionDetails :
          IF details = "given" \/ id \notin DOMAIN alerts
          THEN \* "given": the UPDATE names the column resolution_details, which
               \* create_tables never creates: sqlite3.OperationalError, no write.
               \* unknown id: rowcount = 0, "Alert not found"
               /\ alerts' = alerts
               /\ last' = NoWrite
               /\ result' = [Response("resolve_alert",
                                       IF details = "given" THEN "raised" ELSE "error", id)
                                 EXCEPT !.details = details]
          ELSE /\ alerts' = [alerts EXCEPT ![id] = AlertAfterResolve(@)]
               /\ last' = [op |-> "resolve", id |-> id]
               /\ result' = [Response("resolve_alert", "success", id) EXCEPT
                                 !.details = details]
    /\ NoSms
    /\ UNCHANGED <<reports, journeys, emergency_contacts, sos_history, sms_enabled, clock, pc, local, nconfirm, nescal, status_writer, active_journey, jwrites>>

\* ------------------------------------------------------------ journeys
\* Database.create_journey: the INSERT (end_time stays NULL, written 0)
NewJourney(destination, overall_risk) ==
    [status |-> "active", end_time |-> 0, destination |-> destination,
     overall_risk |-> overall_risk]

JourneyAfterStatus_KeepsEndTime(row, status, now) ==
    [row EXCEPT !.status = status]

\* Database.update_journey_status, the row after the UPDATE; now is
\* datetime.now() of this call
JourneyAfterStatus(row, status, now) ==
    IF status = "completed"
    THEN [row EXCEPT !.status = status, !.end_time = now]
    ELSE [row EXCEPT !.status = status]

\* great-circle distance between two positions, in metres
Distance(a, b) == IF a >= b THEN a - b ELSE b - a

\* SafetyNavigatorHandler._check_destination_reached
check_destination_reached(destination, current_location) ==
    Distance(current_location, destination) <= DestinationThresholdM

\* SafetyNavigatorHandler.register_user: create_user, then one
\* add_emergency_contact per contact of the profile (missing name or phone
\* default to "")
register_user(t) ==
    /\ Begin(t)
    /\ Len(emergency_contacts) < MaxContacts
    /\ \E contact \in ContactChoices :
          emergency_contacts' = Append(emergency_contacts, contact)
    /\ last' = NoWrite
    /\ result' = Response("register_user", "success", "")
    /\ NoSms
    /\ UNCHANGED <<reports, alerts, journeys, sos_history, sms_enabled, clock, pc, local,
                   nconfirm, nescal, status_writer, active_journey, jwrites>>

\* SafetyNavigatorHandler.start_journey
start_journey(t) ==
    /\ Begin(t)
    /\ \E id \in JourneyIds \ DOMAIN journeys, outcome \in AgentOutcomes,
          destination \in Destinations, risk \in Risks :
          IF outcome = "ok"
          THEN /\ journeys' = Put(journeys, id, NewJourney(destination, risk))
               /\ last' = [op |-> "create_journey", id |-> id]
               /\ result' = [Response("start_journey", "success", id) EXCEPT
                                 !.agent = outcome, !.overall_risk = risk]
          ELSE \* agent.run raised (propagates) or json.loads raised (fallback
               \* response is returned without create_journey)
               /\ journeys' = journeys
               /\ last' = NoWrite
               /\ result' = IF outcome = "raise"
                            THEN [Response("start_journey", "raised", "") EXCEPT
                                     !.agent = outcome]
                            ELSE [Response("start_journey", "success", id) EXCEPT
                                     !.agent = outcome, !.overall_risk = "medium"]
    /\ NoSms
    /\ UNCHANGED <<reports, alerts, emergency_contacts, sos_history, sms_enabled, clock, pc,
                   local, nconfirm, nescal, status_writer, active_journey, jwrites>>

\* SafetyNavigatorHandler.update_location: get_journey, agent.run and the
\* destination test
update_location_get(t) ==
    /\ Begin(t)
    /\ \E id \in JourneyIds, outcome \in AgentOutcomes, flag \in BOOLEAN,
          current_location \in Locations :
          IF id \notin DOMAIN journeys
          THEN \* "Journey not found", before agent.run
               /\ UNCHANGED <<pc, local>>
               /\ result' = Response("update_location", "error", id)
          ELSE LET within == check_destination_reached(journeys[id].destination,
                                                       current_location)
               IN IF outcome = "ok" /\ (flag \/ within)
                  THEN /\ pc' = [pc EXCEPT ![t] = "update_location_status"]
                       /\ local' = [local EXCEPT ![t] =
                                        [Idle EXCEPT !.id = id,
                                                     !.status = journeys[id].status,
                                                     !.within = within]]
                       /\ result' = NoResult
                  ELSE \* agent.run raised, the fallback response of the except
                       \* branch, or destination not reached: no write
                       /\ UNCHANGED <<pc, local>>
                       /\ result' =
                             CASE outcome = "raise" ->
                                  [Response("update_location", "raised", id) EXCEPT
                                      !.agent = outcome]
                               [] outcome = "malformed" ->
                                  [Response("update_location", "success", id) EXCEPT
                                      !.agent = outcome, !.destination_reached = within]
                               [] outcome = "ok" ->
                                  [Response("update_location", "success", id) EXCEPT
                                      !.agent = outcome]
    /\ last' = NoWrite
    /\ NoSms
    /\ UNCHANGED <<reports, alerts, journeys, emergency_contacts, sos_history, sms_enabled,
                   clock, nconfirm, nescal, status_writer, active_journey, jwrites>>

\* the update_journey_status call of a handler: status is what it writes
WriteJourneyStatus(t, status) ==
    LET id == local[t].id
    IN /\ journeys' = [journeys EXCEPT ![id] = JourneyAfterStatus(@, status, clock + 1)]
       /\ clock' = IF status = "completed" THEN clock + 1 ELSE clock
       /\ jwrites' = [jwrites EXCEPT ![id] = @ \cup {<<local[t].status, status>>}]
       /\ last' = [op |-> status, id |-> id]

update_location_status_WritesActive(t) ==
    /\ pc[t] = "update_location_status"
    /\ WriteJourneyStatus(t, "active")
    /\ result' = [Response("update_location", "success", local[t].id) EXCEPT
                      !.agent = "ok", !.destination_reached = TRUE]
    /\ NoSms
    /\ pc' = [pc EXCEPT ![t] = "idle"]
    /\ local' = [local EXCEPT ![t] = Idle]
    /\ UNCHANGED <<reports, alerts, emergency_contacts, sos_history, sms_enabled, calls,
                   nconfirm, nescal, status_writer, active_journey>>

\* SafetyNavigatorHandler.update_location: update_journey_status(completed)
update_location_status(t) ==
    /\ pc[t] = "update_location_status"
    /\ WriteJourneyStatus(t, "completed")
    /\ result' = [Response("update_location", "success", local[t].id) EXCEPT
                      !.agent = "ok", !.destination_reached = TRUE]
    /\ NoSms
    /\ pc' = [pc EXCEPT ![t] = "idle"]
    /\ local' = [local EXCEPT ![t] = Idle]
    /\ UNCHANGED <<reports, alerts, emergency_contacts, sos_history, sms_enabled, calls,
                   nconfirm, nescal, status_writer, active_journey>>

Max(a, b) == IF a >= b THEN a ELSE b

calculate_safety_score_MediumDeductsTwenty(journey) ==
    Max(0, 100 - (IF journey.overall_risk \in {"high", "medium"} THEN 20 ELSE 0))

\* SafetyNavigatorHandler._calculate_safety_score
calculate_safety_score(journey) ==
    Max(0, 100 - (IF journey.overall_risk = "high" THEN 20
                  ELSE IF journey.overall_risk = "medium" THEN 10 ELSE 0))

\* SafetyNavigatorHandler.end_journey: get_journey
end_journey_get(t) ==
    /\ Begin(t)
    /\ \E id \in JourneyIds :
          IF id \in DOMAIN journeys
          THEN /\ pc' = [pc EXCEPT ![t] = "end_journey_status"]
               /\ local' = [local EXCEPT ![t] = [Idle EXCEPT !.id = id, !.status = journeys[id].status]]
               /\ result' = NoResult
          ELSE \* "Journey not found"
               /\ UNCHANGED <<pc, local>>
               /\ result' = Response("end_journey", "error", id)
    /\ last' = NoWrite
    /\ NoSms
    /\ UNCHANGED <<reports, alerts, journeys, emergency_contacts, sos_history, sms_enabled,
                   clock, nconfirm, nescal, status_writer, active_journey, jwrites>>

end_journey_status_WritesEmergency(t) ==
    /\ pc[t] = "end_journey_status"
    /\ WriteJourneyStatus(t, "emergency")
    /\ result' = [Response("end_journey", "success", local[t].id) EXCEPT
                      !.safety_score = calculate_safety_score(journeys[local[t].id]),
                      !.end_time = journeys'[local[t].id].end_time]
    /\ NoSms
    /\ pc' = [pc EXCEPT ![t] = "idle"]
    /\ local' = [local EXCEPT ![t] = Idle]
    /\ UNCHANGED <<reports, alerts, emergency_contacts, sos_history, sms_enabled, calls,
                   nconfirm, nescal, status_writer, active_journey>>

\* SafetyNavigatorHandler.end_journey: update_journey_status(completed),
\* get_journey and the summary
end_journey_status(t) ==
    /\ pc[t] = "end_journey_status"
    /\ WriteJourneyStatus(t, "completed")
    /\ result' = [Response("end_journey", "success", local[t].id) EXCEPT
                      !.safety_score = calculate_safety_score(journeys[local[t].id]),
                      !.end_time = journeys'[local[t].id].end_time]
    /\ NoSms
    /\ pc' = [pc EXCEPT ![t] = "idle"]
    /\ local' = [local EXCEPT ![t] = Idle]
    /\ UNCHANGED <<reports, alerts, emergency_contacts, sos_history, sms_enabled, calls,
                   nconfirm, nescal, status_writer, active_journey>>

\* SafetyNavigatorHandler.trigger_emergency: get_journey
trigger_emergency_get(t) ==
    /\ Begin(t)
    /\ \E id \in JourneyIds :
          IF id \in DOMAIN journeys
          THEN /\ pc' = [pc EXCEPT ![t] = "trigger_emergency_status"]
               /\ local' = [local EXCEPT ![t] = [Idle EXCEPT !.id = id, !.status = journeys[id].status]]
               /\ result' = NoResult
          ELSE \* "Journey not found"
               /\ UNCHANGED <<pc, local>>
               /\ result' = Response("trigger_emergency", "error", id)
    /\ last' = NoWrite
    /\ NoSms
    /\ UNCHANGED <<reports, alerts, journeys, emergency_contacts, sos_history, sms_enabled,
                   clock, nconfirm, nescal, status_writer, active_journey, jwrites>>

\* SafetyNavigatorHandler.trigger_emergency: update_journey_status(emergency)
trigger_emergency_status(t) ==
    /\ pc[t] = "trigger_emergency_status"
    /\ WriteJourneyStatus(t, "emergency")
    /\ result' = NoResult
    /\ NoSms
    /\ pc' = [pc EXCEPT ![t] = "trigger_emergency_sos"]
    /\ UNCHANGED <<reports, alerts, emergency_contacts, sos_history, sms_enabled, calls,
                   local, nconfirm, nescal, status_writer, active_journey>>

trigger_emergency_sos_ReplacesHistory(t) ==
    /\ pc[t] = "trigger_emergency_sos"
    /\ \E delivered \in [1..Len(emergency_contacts) -> BOOLEAN] :
          LET results == send_sos_notifications(emergency_contacts, sms_enabled, delivered)
          IN /\ sos_history' = <<[journey_id |-> local[t].id,
                                   contacts_notified |-> ContactsNotified(results)]>>
             /\ nsos' = nsos + 1
             /\ sms_results' = results
             /\ result' = [Response("trigger_emergency", "success", local[t].id) EXCEPT
                               !.notified = Len(ContactsNotified(results)),
                               !.authorities_alerted = TRUE]
    /\ last' = [op |-> "create_sos", id |-> local[t].id]
    /\ pc' = [pc EXCEPT ![t] = "idle"]
    /\ local' = [local EXCEPT ![t] = Idle]
    /\ UNCHANGED <<reports, alerts, journeys, emergency_contacts, sms_enabled, clock, calls,
                   nconfirm, nescal, status_writer, active_journey, jwrites>>

\* SafetyNavigatorHandler.trigger_emergency: get_emergency_contacts,
\* send_sos_notifications and create_sos
trigger_emergency_sos(t) ==
    /\ pc[t] = "trigger_emergency_sos"
    /\ \E delivered \in [1..Len(emergency_contacts) -> BOOLEAN] :
          LET results == send_sos_notifications(emergency_contacts, sms_enabled, delivered)
          IN /\ sos_history' = Append(sos_history,
                                      [journey_id |-> local[t].id,
                                       contacts_notified |-> ContactsNotified(results)])
             /\ nsos' = nsos + 1
             /\ sms_results' = results
             /\ result' = [Response("trigger_emergency", "success", local[t].id) EXCEPT
                               !.notified = Len(ContactsNotified(results)),
                               !.authorities_alerted = TRUE]
    /\ last' = [op |-> "create_sos", id |-> local[t].id]
    /\ pc' = [pc EXCEPT ![t] = "idle"]
    /\ local' = [local EXCEPT ![t] = Idle]
    /\ UNCHANGED <<reports, alerts, journeys, emergency_contacts, sms_enabled, clock, calls,
                   nconfirm, nescal, status_writer, active_journey, jwrites>>

\* "Send Journey Status via SMS": one send_sms(contact["phone"], message) per
\* selected name, to the first contact of that name; selected is the
\* multiselect's value, taken in the order of the contact list
RECURSIVE share_journey_status(_, _, _, _)
share_journey_status(contacts, selected, enabled, delivered) ==
    IF contacts = <<>> THEN <<>>
    ELSE LET n == Len(contacts)
             contact == contacts[n]
             rest == share_journey_status(SubSeq(contacts, 1, n - 1), selected, enabled,
                                          delivered)
         IN IF contact.name \in selected
                  /\ \A k \in 1..(n - 1) : contacts[k].name # contact.name
            THEN Append(rest, [status |-> send_sms(enabled, delivered[n]),
                               contact_name |-> contact.name,
                               contact_phone |-> contact.phone])
            ELSE rest

\* the "Send Journey Status via SMS" button of the active-journey page
send_journey_status(t) ==
    /\ Begin(t)
    /\ DOMAIN journeys # {}
    /\ emergency_contacts # <<>>
    /\ \E selected \in SUBSET {emergency_contacts[i].name : i \in DOMAIN emergency_contacts},
          delivered \in [1..Len(emergency_contacts) -> BOOLEAN] :
          LET results == share_journey_status(emergency_contacts, selected, sms_enabled,
                                              delivered)
          IN IF selected = {}
             THEN \* "Please select at least one contact."
                  /\ UNCHANGED sms_results
                  /\ result' = Response("send_journey_status", "error", "")
             ELSE /\ sms_results' = results
                  /\ result' = [Response("send_journey_status", "success", "") EXCEPT
                                    !.notified = Len(ContactsNotified(results))]
    /\ last' = NoWrite
    /\ UNCHANGED <<reports, alerts, journeys, emergency_contacts, sos_history, sms_enabled,
                   clock, pc, local, nconfirm, nescal, status_writer, active_journey, jwrites, nsos>>

\* ------------------------------------------- the Safe Journey page
\* The button handlers of one browser session.  A script run serves one
\* click from the handler call to the session_state assignment, and the
\* journey is this session's own, so a click is one step here.

\* a handler call made by the page
UiCall ==
    /\ calls < MaxCalls
    /\ calls' = calls + 1

\* SafetyNavigatorHandler.end_journey as the page calls it on a stored
\* journey: the row written and the response; now is datetime.now()
EndedJourney(row, now) == JourneyAfterStatus(row, "completed", now)
EndResponse(id, row, now) ==
    [Response("end_journey", "success", id) EXCEPT
        !.safety_score = calculate_safety_score(row),
        !.end_time = EndedJourney(row, now).end_time]

\* "Start Journey": start_journey, and on status success the session entry
\* is set to the returned journey_id (a fresh uuid, here an id that was
\* neither stored nor handed out)
ui_start_journey ==
    /\ UiCall
    /\ \E id \in JourneyIds \ (DOMAIN journeys \cup {active_journey}),
          outcome \in AgentOutcomes, destination \in Destinations, risk \in Risks :
          CASE outcome = "ok" ->
                 /\ journeys' = Put(journeys, id, NewJourney(destination, risk))
                 /\ last' = [op |-> "create_journey", id |-> id]
                 /\ result' = [Response("start_journey", "success", id) EXCEPT
                                   !.agent = outcome, !.overall_risk = risk]
                 /\ active_journey' = id
            [] outcome = "malformed" ->
                 \* the fallback response: success, no create_journey
                 /\ journeys' = journeys
                 /\ last' = NoWrite
                 /\ result' = [Response("start_journey", "success", id) EXCEPT
                                   !.agent = outcome, !.overall_risk = "medium"]
                 /\ active_journey' = id
            [] outcome = "raise" ->
                 \* agent.run raised: the script run ends in the exception
                 /\ journeys' = journeys
                 /\ last' = NoWrite
                 /\ result' = [Response("start_journey", "raised", "") EXCEPT
                                   !.agent = outcome]
                 /\ active_journey' = active_journey
    /\ NoSms
    /\ UNCHANGED <<reports, alerts, emergency_contacts, sos_history, sms_enabled, clock, pc,
                   local, nconfirm, nescal, status_writer, jwrites>>

\* "Update Location": update_location on the session's journey; when the
\* response says destination_reached the page calls end_journey and, on its
\* success, clears the session entry
ui_update_location ==
    /\ UiCall
    /\ active_journey # ""
    /\ \E outcome \in AgentOutcomes, flag \in BOOLEAN, current_location \in Locations :
          LET id == active_journey
          IN IF id \notin DOMAIN journeys
             THEN \* "Journey not found"
                  /\ result' = Response("update_location", "error", id)
                  /\ last' = NoWrite
                  /\ UNCHANGED <<journeys, clock, jwrites, active_journey>>
             ELSE LET row == journeys[id]
                      within == check_destination_reached(row.destination, current_location)
                      completed == JourneyAfterStatus(row, "completed", clock + 1)
                  IN CASE outcome = "raise" ->
                            /\ result' = [Response("update_location", "raised", id) EXCEPT
                                              !.agent = outcome]
                            /\ last' = NoWrite
                            /\ UNCHANGED <<journeys, clock, jwrites, active_journey>>
                       [] outcome = "ok" /\ (flag \/ within) ->
                            \* update_journey_status(completed), then end_journey
                            /\ journeys' = [journeys EXCEPT
                                               ![id] = EndedJourney(completed, clock + 2)]
                            /\ clock' = clock + 2
                            /\ jwrites' = [jwrites EXCEPT ![id] =
                                               @ \cup {<<row.status, "completed">>,
                                                       <<"completed", "completed">>}]
                            /\ last' = [op |-> "completed", id |-> id]
                            /\ result' = EndResponse(id, completed, clock + 2)
                            /\ active_journey' = ""
                       [] outcome = "malformed" /\ within ->
                            \* the fallback response reports the destination
                            \* reached without a write; end_journey writes
                            /\ journeys' = [journeys EXCEPT
                                               ![id] = EndedJourney(row, clock + 1)]
                            /\ clock' = clock + 1
                            /\ jwrites' = [jwrites EXCEPT ![id] =
                                               @ \cup {<<row.status, "completed">>}]
                            /\ last' = [op |-> "completed", id |-> id]
                            /\ result' = EndResponse(id, row, clock + 1)
                            /\ active_journey' = ""
                       [] OTHER ->
                            \* destination not reached
                            /\ result' = [Response("update_location", "success", id) EXCEPT
                                              !.agent = outcome]
                            /\ last' = NoWrite
                            /\ UNCHANGED <<journeys, clock, jwrites, active_journey>>
    /\ NoSms
    /\ UNCHANGED <<reports, alerts, emergency_contacts, sos_history, sms_enabled, pc, local,
                   nconfirm, nescal, status_writer>>

\* "End Journey": end_journey on the session's journey; on success the
\* session entry is cleared
ui_end_journey ==
    /\ UiCall
    /\ active_journey # ""
    /\ LET id == active_journey
       IN IF id \notin DOMAIN journeys
          THEN \* "Journey not found": "Failed to end journey"
               /\ result' = Response("end_journey", "error", id)
               /\ last' = NoWrite
               /\ UNCHANGED <<journeys, clock, jwrites, active_journey>>
          ELSE /\ journeys' = [journeys EXCEPT ![id] = EndedJourney(@, clock + 1)]
               /\ clock' = clock + 1
               /\ jwrites' = [jwrites EXCEPT ![id] =
                                  @ \cup {<<journeys[id].status, "completed">>}]
               /\ last' = [op |-> "completed", id |-> id]
               /\ result' = EndResponse(id, journeys[id], clock + 1)
               /\ active_journey' = ""
    /\ NoSms
    /\ UNCHANGED <<reports, alerts, emergency_contacts, sos_history, sms_enabled, pc, local,
                   nconfirm, nescal, status_writer>>

\* "TRIGGER EMERGENCY": trigger_emergency on the session's journey; the
\* handler shows the response and assigns nothing to the session
ui_trigger_emergency ==
    /\ UiCall
    /\ active_journey # ""
    /\ \E delivered \in [1..Len(emergency_contacts) -> BOOLEAN] :
          LET id == active_journey
              results == send_sos_notifications(emergency_contacts, sms_enabled, delivered)
          IN IF id \notin DOMAIN journeys
             THEN \* "Journey not found"
                  /\ result' = Response("trigger_emergency", "error", id)
                  /\ last' = NoWrite
                  /\ UNCHANGED <<journeys, jwrites, sos_history>>
                  /\ NoSms
             ELSE /\ journeys' = [journeys EXCEPT
                                     ![id] = JourneyAfterStatus(@, "emergency", clock + 1)]
                  /\ jwrites' = [jwrites EXCEPT ![id] =
                                     @ \cup {<<journeys[id].status, "emergency">>}]
                  /\ sos_history' = Append(sos_history,
                                           [journey_id |-> id,
                                            contacts_notified |-> ContactsNotified(results)])
                  /\ nsos' = nsos + 1
                  /\ sms_results' = results
                  /\ last' = [op |-> "create_sos", id |-> id]
                  /\ result' = [Response("trigger_emergency", "success", id) EXCEPT
                                    !.notified = Len(ContactsNotified(results)),
                                    !.authorities_alerted = TRUE]
    /\ UNCHANGED <<reports, alerts, emergency_contacts, sms_enabled, clock, pc, local,
                   nconfirm, nescal, status_writer, active_journey>>

\* -------------------------------------------------------- area search
\* Latitudes and longitudes are in tenths of a degree, distances in
\* decimetres, radii in km.  The places lie on the equator and at the north
\* pole, where the Haversine formula has closed values.
Centers ==
    {[latitude |-> 0, longitude |-> 0],
     [latitude |-> 0, longitude |-> 1799],
     [latitude |-> 900, longitude |-> 0]}
Places ==
    {[latitude |-> 0, longitude |-> 0],
     [latitude |-> 0, longitude |-> 1],
     [latitude |-> 0, longitude |-> -1799],
     [latitude |-> 900, longitude |-> 900]}
RadiiKm == {0, 50}
AreaStatuses == {"active", "resolved"}

Abs(x) == IF x >= 0 THEN x ELSE -x
Min(a, b) == IF a <= b THEN a ELSE b

\* r * radians(0.1 degree) with r = 6371 km, in decimetres
DmPerTenthDegree == (6371 * 174533) \div 10000

\* Database.calculate_distance (Haversine), in decimetres.  On the equator it
\* is the arc of the longitude difference, taken the short way round; from the
\* pole to the equator a quarter of a great circle; between two places at the
\* pole with different longitudes the double arithmetic leaves a positive
\* distance far below one decimetre, written 1.
calculate_distance(lat1, lon1, lat2, lon2) ==
    CASE lat1 = 0 /\ lat2 = 0 ->
           DmPerTenthDegree * Min(Abs(lon2 - lon1), 3600 - Abs(lon2 - lon1))
      [] lat1 = 900 /\ lat2 = 900 -> IF lon1 = lon2 THEN 0 ELSE 1
      [] OTHER -> DmPerTenthDegree * 900

cos_radians_ZeroAtPole(latitude) ==
    IF latitude = 900 THEN [m |-> 0, e |-> 0] ELSE [m |-> 100, e |-> -2]

\* cos(radians(latitude)) as a decimal float m * 10^e: cos(radians(90.0)) is
\* 6.12e-17 in double arithmetic, not 0
cos_radians(latitude) ==
    IF latitude = 900 THEN [m |-> 612, e |-> -19] ELSE [m |-> 100, e |-> -2]

Pow10(k) == [i \in 0..8 |-> CASE i = 0 -> 1 [] i = 1 -> 10 [] i = 2 -> 100 [] i = 3 -> 1000
                              [] i = 4 -> 10000 [] i = 5 -> 100000 [] i = 6 -> 1000000
                              [] i = 7 -> 10000000 [] OTHER -> 100000000][k]

\* lhs <= rhs * 10^k for 0 <= lhs < 10^9 and rhs >= 0, without overflow
LeScaled(lhs, rhs, k) ==
    IF rhs = 0 THEN lhs = 0
    ELSE IF k >= 9 THEN TRUE
    ELSE lhs <= rhs * Pow10(k)

\* the WHERE clause of the area searches:
\*   latitude  BETWEEN latitude - lat_range AND latitude + lat_range
\*   longitude BETWEEN longitude - lng_range AND longitude + lng_range
\* with lat_range = radius_km / 111.0 and
\* lng_range = radius_km / (111.0 * cos(radians(latitude)))
in_bounding_box(row, latitude, longitude, radius_km) ==
    LET c == cos_radians(latitude)
    IN /\ 111 * Abs(row.latitude - latitude) <= 10 * radius_km
       /\ LeScaled(111 * c.m * Abs(row.longitude - longitude), 10 * radius_km, -c.e)

\* round(distance, 2), in hundredths of a km
round2(distance) == (distance + 50) \div 100

\* the loop over cursor.fetchall(): the rows within radius_km, in rowid
\* order, each with its distance_km
RECURSIVE within_radius(_, _, _, _)
within_radius(rows, latitude, longitude, radius_km) ==
    IF rows = <<>> THEN <<>>
    ELSE LET n == Len(rows)
             rest == within_radius(SubSeq(rows, 1, n - 1), latitude, longitude, radius_km)
             distance == calculate_distance(latitude, longitude,
                                            rows[n].latitude, rows[n].longitude)
         IN IF distance <= radius_km * 10000
            THEN Append(rest, [row |-> rows[n], distance_km |-> round2(distance)])
            ELSE rest

\* the rows the SELECT of get_reports_by_area returns
RowsInBox(rows, latitude, longitude, radius_km) ==
    SelectSeq(rows, LAMBDA row : in_bounding_box(row, latitude, longitude, radius_km))

\* Database.get_reports_by_area
db_get_reports_by_area(rows, latitude, longitude, radius_km) ==
    within_radius(RowsInBox(rows, latitude, longitude, radius_km),
                  latitude, longitude, radius_km)

SanitizedReport_WithReporter(found) ==
    [id |-> found.row.id, timestamp |-> found.row.created_at,
     categories |-> found.row.categories, severity |-> found.row.severity,
     distance_km |-> found.distance_km, reporter_id |-> found.row.reporter_id]

\* IncidentReportingHandler.get_reports_by_area: the sanitized entry
SanitizedReport(found) ==
    [id |-> found.row.id, timestamp |-> found.row.created_at,
     categories |-> found.row.categories, severity |-> found.row.severity,
     distance_km |-> found.distance_km]

\* IncidentReportingHandler.get_reports_by_area: the returned list
SanitizedReports(rows, latitude, longitude, radius_km) ==
    LET found == db_get_reports_by_area(rows, latitude, longitude, radius_km)
    IN [i \in 1..Len(found) |-> SanitizedReport(found[i])]

\* the division radius_km / (111.0 * cos(radians(latitude))) raises
\* ZeroDivisionError when the divisor is 0.0
DivisionByZero(latitude) == 111 * cos_radians(latitude).m = 0

\* IncidentReportingHandler.get_reports_by_area: a read-only request, the
\* same whichever thread serves it
get_reports_by_area ==
    /\ \E center \in Centers, radius_km \in RadiiKm :
          result' = [Response("get_reports_by_area",
                              IF DivisionByZero(center.latitude) THEN "raised"
                              ELSE "success", "") EXCEPT
                        !.latitude = center.latitude, !.longitude = center.longitude,
                        !.radius_km = radius_km,
                        !.rows = IF DivisionByZero(center.latitude) THEN <<>>
                                 ELSE SanitizedReports(reports, center.latitude,
                                                       center.longitude, radius_km)]
    /\ last' = NoWrite
    /\ NoSms
    /\ UNCHANGED <<reports, alerts, journeys, emergency_contacts, sos_history, sms_enabled,
                   clock, pc, local, calls, nconfirm, nescal, status_writer, active_journey, jwrites>>

\* the first component of the sort key of get_active_alerts
SeverityRank(severity) ==
    IF severity = "high" THEN 0 ELSE IF severity = "medium" THEN 1 ELSE 2

\* the sort key (severity rank, distance_km), compared as Python compares
\* tuples
KeyLe(a, b) ==
    \/ SeverityRank(a.row.severity) < SeverityRank(b.row.severity)
    \/ /\ SeverityRank(a.row.severity) = SeverityRank(b.row.severity)
       /\ a.distance_km <= b.distance_km

\* list.sort is stable: an entry goes behind the entries whose key is not larger
RECURSIVE sort_alerts(_)
sort_alerts(found) ==
    IF found = <<>> THEN <<>>
    ELSE LET n == Len(found)
             sorted == sort_alerts(SubSeq(found, 1, n - 1))
             k == Cardinality({i \in DOMAIN sorted : KeyLe(sorted[i], found[n])})
         IN SubSeq(sorted, 1, k) \o <<found[n]>> \o SubSeq(sorted, k + 1, Len(sorted))

\* Database.get_active_alerts
db_get_active_alerts(rows, latitude, longitude, radius_km) ==
    LET active == SelectSeq(rows, LAMBDA row : row.status = "active")
        found == within_radius(RowsInBox(active, latitude, longitude, radius_km),
                               latitude, longitude, radius_km)
        sorted == sort_alerts(found)
    IN [i \in 1..Len(sorted) |->
           [id |-> sorted[i].row.id, severity |-> sorted[i].row.severity,
            status |-> sorted[i].row.status, latitude |-> sorted[i].row.latitude,
            longitude |-> sorted[i].row.longitude,
            distance_km |-> sorted[i].distance_km]]

\* EmergencyAlertHandler.get_active_alerts: a read-only request
get_active_alerts ==
    /\ \E center \in Centers, radius_km \in RadiiKm :
          result' = [Response("get_active_alerts",
                              IF DivisionByZero(center.latitude) THEN "raised"
                              ELSE "success", "") EXCEPT
                        !.latitude = center.latitude, !.longitude = center.longitude,
                        !.radius_km = radius_km,
                        !.rows = IF DivisionByZero(center.latitude) THEN <<>>
                                 ELSE db_get_active_alerts(alerts, center.latitude,
                                                           center.longitude, radius_km)]
    /\ last' = NoWrite
    /\ NoSms
    /\ UNCHANGED <<reports, alerts, journeys, emergency_contacts, sos_history, sms_enabled,
                   clock, pc, local, calls, nconfirm, nescal, status_writer, active_journey, jwrites>>

\* a reports row of the area searches (create_report's INSERT with its
\* location and text columns)
AreaReport(i, place, severity) ==
    [id |-> <<"report", i>>, reporter_id |-> "u1", description |-> "text",
     anonymized_description |-> "anonymized text", latitude |-> place.latitude,
     longitude |-> place.longitude, severity |-> severity,
     categories |-> <<"general_concern">>, status |-> "submitted",
     verification_count |-> InitialReportCount, created_at |-> i]

\* an alerts row of the area searches (create_alert's INSERT with its
\* location columns, after resolve_alert when status is resolved)
AreaAlert(i, place, severity, status) ==
    [id |-> <<"alert", i>>, latitude |-> place.latitude, longitude |-> place.longitude,
     severity |-> severity, status |-> status,
     verification_count |-> InitialAlertCount, created_at |-> i]

\* a store that holds up to MaxRecords reports and alerts, in rowid order;
\* report i and alert i were filed at the same place with the same severity
InitArea ==
    /\ \E n \in 0..MaxRecords :
          \E place \in [1..n -> Places], severity \in [1..n -> Severities],
             status \in [1..n -> AreaStatuses] :
             /\ reports = [i \in 1..n |-> AreaReport(i, place[i], severity[i])]
             /\ alerts = [i \in 1..n |-> AreaAlert(i, place[i], severity[i], status[i])]
    /\ journeys = <<>>
    /\ emergency_contacts = <<>>
    /\ sos_history = <<>>
    /\ sms_enabled = FALSE
    /\ clock = 0
    /\ pc = [t \in Threads |-> "idle"]
    /\ local = [t \in Threads |-> Idle]
    /\ calls = 0
    /\ nconfirm = [r \in ReportIds \cup AlertIds |-> 0]
    /\ nescal = [r \in ReportIds \cup AlertIds |-> 0]
    /\ jwrites = [j \in JourneyIds |-> {}]
    /\ last = NoWrite
    /\ result = NoResult
    /\ nsos = 0
    /\ sms_results = <<>>
    /\ status_writer = [r \in ReportIds |-> ""]
    /\ active_journey = ""

\* a store that already holds a report submitted earlier, under an id no
\* later call names
EarlierReportIds == {"r0"}
InitReports ==
    /\ reports = [r \in EarlierReportIds |-> NewReport("medium")]
    /\ alerts = <<>>
    /\ journeys = <<>>
    /\ emergency_contacts = <<>>
    /\ sos_history = <<>>
    /\ sms_enabled \in BOOLEAN
    /\ clock = 0
    /\ pc = [t \in Threads |-> "idle"]
    /\ local = [t \in Threads |-> Idle]
    /\ calls = 0
    /\ nconfirm = [r \in ReportIds \cup AlertIds |-> 0]
    /\ nescal = [r \in ReportIds \cup AlertIds |-> 0]
    /\ jwrites = [j \in JourneyIds |-> {}]
    /\ last = NoWrite
    /\ result = NoResult
    /\ nsos = 0
    /\ sms_results = <<>>
    /\ status_writer = [r \in ReportIds |-> ""]
    /\ active_journey = ""

\* ------------------------------------------------------- specifications
VerifyStep(t) ==
    \/ submit_report(t)
    \/ verify_report_select(t)
    \/ verify_report_update(t)
    \/ create_alert(t)
    \/ verify_alert_select(t)
    \/ verify_alert_update(t)
    \/ resolve_alert(t)

\* requests served by concurrent threads
NextVerify == \E t \in Threads : VerifyStep(t)
SpecVerify == Init /\ [][NextVerify]_vars

\* the same requests on a store that holds an earlier report
SpecReports == InitReports /\ [][NextVerify]_vars

\* requests served one after another: a thread steps only while no other
\* thread is inside a handler
OthersIdle(t) == \A u \in Threads \ {t} : pc[u] = "idle"
NextVerifySeq == \E t \in Threads : OthersIdle(t) /\ VerifyStep(t)
SpecVerifySeq == Init /\ [][NextVerifySeq]_vars

\* alerts of a reporter with emergency contacts
AlertStep(t) ==
    \/ register_user(t)
    \/ create_alert(t)
    \/ verify_alert_select(t)
    \/ verify_alert_update(t)
    \/ resolve_alert(t)

NextAlert == \E t \in Threads : AlertStep(t)
SpecAlert == Init /\ [][NextAlert]_vars

JourneyStep(t) ==
    \/ register_user(t)
    \/ start_journey(t)
    \/ update_location_get(t)
    \/ update_location_status(t)
    \/ end_journey_get(t)
    \/ end_journey_status(t)
    \/ trigger_emergency_get(t)
    \/ trigger_emergency_status(t)
    \/ trigger_emergency_sos(t)

NextJourney == \E t \in Threads : JourneyStep(t)
SpecJourney == Init /\ [][NextJourney]_vars

\* journeys of a user who registered no emergency contact: the SOS of
\* trigger_emergency finds an empty contact list
JourneyStatusStep(t) ==
    \/ start_journey(t)
    \/ update_location_get(t)
    \/ update_location_status(t)
    \/ end_journey_get(t)
    \/ end_journey_status(t)
    \/ trigger_emergency_get(t)
    \/ trigger_emergency_status(t)
    \/ trigger_emergency_sos(t)

NextJourneyStatus == \E t \in Threads : JourneyStatusStep(t)
SpecJourneyStatus == Init /\ [][NextJourneyStatus]_vars

\* emergencies and status sharing of a user with emergency contacts
EmergencyStep(t) ==
    \/ register_user(t)
    \/ start_journey(t)
    \/ trigger_emergency_get(t)
    \/ trigger_emergency_status(t)
    \/ trigger_emergency_sos(t)
    \/ send_journey_status(t)

NextEmergency == \E t \in Threads : EmergencyStep(t)
SpecEmergency == Init /\ [][NextEmergency]_vars

\* the clicks of one browser session on the Safe Journey page
NextSession ==
    \/ ui_start_journey
    \/ ui_update_location
    \/ ui_end_journey
    \/ ui_trigger_emergency

SpecSession == Init /\ [][NextSession]_vars

\* area searches over a filled store
NextArea ==
    \/ get_reports_by_area
    \/ get_active_alerts

SpecArea == InitArea /\ [][NextArea]_vars

TypeOK ==
    /\ DOMAIN reports \subseteq ReportIds
    /\ DOMAIN alerts \subseteq AlertIds
    /\ calls \in 0..MaxCalls
\* ---------------------------------------------------------------- claims
RecordIds == ReportIds \cup AlertIds

\* C1: once a journey's status is completed or emergency, no later
\* updateLocation, end or triggerEmergency changes it.
C1_TerminalStatusStays ==
    [][\A j \in DOMAIN journeys :
          journeys[j].status \in {"completed", "emergency"}
             => journeys'[j].status = journeys[j].status]_vars

\* C2: of an end (or a completing updateLocation) and a triggerEmergency that
\* both found the journey active, only one writes its status: the journey is
\* never written both to completed and to emergency.
C2_TransitionsExclusive ==
    \A j \in JourneyIds :
       ~ (<<"active", "completed">> \in jwrites[j] /\ <<"active", "emergency">> \in jwrites[j])

\* C3: n confirms on one record raise its verification_count by exactly n,
\* also when they run concurrently, and the escalation fires at most once.
C3_ConfirmsLinearized ==
    /\ \A r \in DOMAIN reports :
          /\ reports[r].verification_count = InitialReportCount + nconfirm[r]
          /\ nescal[r] <= 1
    /\ \A a \in DOMAIN alerts :
          /\ alerts[a].verification_count = InitialAlertCount + nconfirm[a]
          /\ nescal[a] <= 1

\* C4: once a report's status is verified, no later step changes it.
C4_VerifiedStays ==
    [][\A r \in DOMAIN reports :
          reports[r].status = "verified" => reports'[r].status = "verified"]_vars

\* C5: once an alert's severity is high, no confirm, dispute or resolve
\* changes it.
C5_HighSeverityStays ==
    [][\A a \in DOMAIN alerts :
          alerts[a].severity = "high" => alerts'[a].severity = "high"]_vars

\* an alert escalated by consensus, then disputed and resolved, is still high
C5_Witness ==
    \E a \in DOMAIN alerts :
       /\ alerts[a].severity = "high"
       /\ nescal[a] = 1
       /\ alerts[a].status = "resolved"
       /\ last = [op |-> "resolve", id |-> a]

\* C6: the escalation write (status verified, severity high) is done exactly
\* once per record; later confirms only increment the count.
C6_EscalationOnce == \A r \in RecordIds : nescal[r] <= 1

\* C7 as stated: after k confirms of a new alert its verification_count is k,
\* and its severity is raised by the 3rd confirm, not before.
C7_CountEqualsConfirms ==
    \A a \in DOMAIN alerts :
       /\ alerts[a].verification_count = nconfirm[a]
       /\ nconfirm[a] < 3 => nescal[a] = 0

\* C7 as amended: after k confirms made one after another on a new alert its
\* verification_count is k + 1 (creation counts as the first verification);
\* an alert created below high is escalated by the 2nd confirm (count 3), not
\* before and only once, and is high from then on; after 4 confirms the
\* count is 5.
C7_CountIsConfirmsPlusOne ==
    \A a \in DOMAIN alerts :
       /\ alerts[a].verification_count = nconfirm[a] + 1
       /\ nconfirm[a] < 2 => nescal[a] = 0
       /\ nconfirm[a] >= 2 => alerts[a].severity = "high"
       /\ nescal[a] <= 1

\* an alert created below high, confirmed 4 times
C7_Witness ==
    \E a \in DOMAIN alerts :
       /\ nconfirm[a] = 4
       /\ alerts[a].verification_count = 5
       /\ alerts[a].severity = "high"
       /\ nescal[a] = 1

\* C8 as stated: no report is verified and no alert escalated by verification
\* before 3 confirms were applied to it.
C8_ThreeConfirmsBeforeEscalation ==
    /\ \A r \in DOMAIN reports : reports[r].status = "verified" => nconfirm[r] >= 3
    /\ \A a \in DOMAIN alerts : nescal[a] >= 1 => nconfirm[a] >= 3

\* C8 as amended: a report is verified only after 3 confirms were applied to
\* it; an alert, whose creation counts as its first verification, is escalated
\* by verification only after 2 confirms were applied to it.
C8_ThresholdOnCount ==
    /\ \A r \in DOMAIN reports :
          (reports[r].status = "verified" \/ nescal[r] >= 1) => nconfirm[r] >= 3
    /\ \A a \in DOMAIN alerts :
          nescal[a] >= 1 => nconfirm[a] >= 2

\* an alert escalated by its 2nd confirm
C8_Witness ==
    \E a \in DOMAIN alerts :
       /\ nescal[a] = 1
       /\ nconfirm[a] = 2
       /\ alerts[a].severity = "high"
       /\ last = [op |-> "confirm", id |-> a]

\* C9: a verification_count never decreases, and it changes only by the
\* write of a confirm on that record, by exactly +1.
C9_CountMonotone ==
    [][/\ \A r \in DOMAIN reports :
             \/ reports'[r].verification_count = reports[r].verification_count
             \/ /\ reports'[r].verification_count = reports[r].verification_count + 1
                /\ last' = [op |-> "confirm", id |-> r]
       /\ \A a \in DOMAIN alerts :
             \/ alerts'[a].verification_count = alerts[a].verification_count
             \/ /\ alerts'[a].verification_count = alerts[a].verification_count + 1
                /\ last' = [op |-> "confirm", id |-> a]]_vars

\* C10: the write of a dispute sets the record's status to disputed whatever
\* its count, and leaves verification_count and severity as they were (so a
\* dispute after 3 confirms leaves count 3, status disputed).
C10_DisputeSetsStatusOnly ==
    [][/\ \A r \in DOMAIN reports :
             last' = [op |-> "dispute", id |-> r]
                => /\ reports'[r].status = "disputed"
                   /\ reports'[r].verification_count = reports[r].verification_count
                   /\ reports'[r].severity = reports[r].severity
       /\ \A a \in DOMAIN alerts :
             last' = [op |-> "dispute", id |-> a]
                => /\ alerts'[a].status = "disputed"
                   /\ alerts'[a].verification_count = alerts[a].verification_count
                   /\ alerts'[a].severity = alerts[a].severity]_vars

\* a report confirmed 3 times and then disputed
C10_Witness ==
    \E r \in DOMAIN reports :
       /\ nconfirm[r] = 3
       /\ last = [op |-> "dispute", id |-> r]
       /\ reports[r].verification_count = 3
       /\ reports[r].status = "disputed"
\* the tables of the store
store == <<reports, alerts, journeys, emergency_contacts, sos_history>>
\* the ids a call's id is looked up in
KnownIds(call) ==
    CASE call = "verify_report" -> DOMAIN reports
      [] call \in {"verify_alert", "resolve_alert"} -> DOMAIN alerts
      [] OTHER -> DOMAIN journeys

\* C11: verify, resolve, updateLocation, end and triggerEmergency called with
\* an id that does not exist return the structured failure (status error) and
\* change nothing: no table is written and no notification is sent.
C11_UnknownIdIsStructuredFailure ==
    [][(/\ result'.call \in {"verify_report", "verify_alert", "resolve_alert",
                             "update_location", "end_journey", "trigger_emergency"}
        /\ result'.id \notin KnownIds(result'.call))
          => /\ result'.status = "error"
             /\ UNCHANGED store
             /\ nsos' = nsos]_vars

\* C12: updateLocation on a journey whose status is completed or emergency
\* returns the structured failure and leaves status and end_time unchanged.
C12_UpdateOnTerminalFails ==
    [][\A j \in DOMAIN journeys :
          (/\ journeys[j].status \in {"completed", "emergency"}
           /\ result'.call = "update_location"
           /\ result'.id = j)
             => /\ result'.status = "error"
                /\ journeys'[j].status = journeys[j].status
                /\ journeys'[j].end_time = journeys[j].end_time]_vars

\* C13: when updateLocation returns destination_reached = true, the stored
\* status of the journey is completed at that moment.
C13_ReachedMeansCompleted ==
    (result.call = "update_location" /\ result.destination_reached)
       => journeys[result.id].status = "completed"

\* C14: a journey goes from active to completed only by an end call or by an
\* updateLocation whose location is within the threshold distance of the
\* destination, whatever the classifier answered.
C14_CompletedOnlyWithinThreshold ==
    [][\A j \in DOMAIN journeys :
          (journeys[j].status = "active" /\ journeys'[j].status = "completed")
             => \E t \in Threads :
                   /\ pc'[t] # pc[t]
                   /\ local[t].id = j
                   /\ \/ pc[t] = "end_journey_status"
                      \/ pc[t] = "update_location_status" /\ local[t].within]_vars

\* C15: a journey's status becomes emergency only by the status write of a
\* triggerEmergency call on that journey; a journey is never created with it.
C15_EmergencyOnlyByTrigger ==
    [][\A j \in DOMAIN journeys' :
          (journeys'[j].status = "emergency"
             /\ (j \in DOMAIN journeys => journeys[j].status # "emergency"))
             => \E t \in Threads :
                   /\ pc[t] = "trigger_emergency_status"
                   /\ pc'[t] = "trigger_emergency_sos"
                   /\ local[t].id = j]_vars

\* a journey put into emergency by trigger_emergency after an end call
C15_Witness ==
    \E j \in DOMAIN journeys :
       /\ journeys[j].status = "emergency"
       /\ last = [op |-> "emergency", id |-> j]
       /\ <<"active", "completed">> \in jwrites[j]

\* C16: when the classifier fails during submit (raises or answers text that
\* does not parse), submit returns the fallback (severity medium) and a
\* report with the returned id is in the store with status submitted.
C16_FallbackReportPersisted ==
    (result.call = "submit_report" /\ result.agent # "ok")
       => /\ result.status = "success"
          /\ result.severity = "medium"
          /\ result.id \in DOMAIN reports
          /\ reports[result.id].status = "submitted"

\* C17: an alert create whose classifier step fails (raises or answers text
\* that does not parse) still stores an alert under the returned id, with the
\* caller-supplied severity.
C17_FailedClassifierAlertPersisted ==
    (result.call = "create_alert" /\ result.agent # "ok")
       => /\ result.status = "success"
          /\ result.id \in DOMAIN alerts
          /\ alerts[result.id].severity = result.severity

\* C18: when the classifier fails during start, start returns the default
\* safety profile (overall risk medium) and a journey with the returned id is
\* in the store with status active.
C18_FallbackJourneyCreated ==
    (result.call = "start_journey" /\ result.agent # "ok")
       => /\ result.status = "success"
          /\ result.overall_risk = "medium"
          /\ result.id \in DOMAIN journeys
          /\ journeys[result.id].status = "active"

\* C19: a classifier call that raises never leaves submit, create, start or
\* updateLocation as an exception: the handler returns its fallback.
C19_ClassifierErrorNeverPropagates ==
    result.call \in {"submit_report", "create_alert", "start_journey", "update_location"}
       => result.status # "raised"

\* C20: when create returns severity high and the reporter has emergency
\* contacts, send_sos_notifications was invoked by that call and the returned
\* count is the number of per-contact results sent or simulated, also when
\* high is the caller's severity kept after a classifier failure.
C20_HighSeverityNotifies ==
    [][(/\ result'.call = "create_alert"
        /\ result'.status = "success"
        /\ result'.severity = "high"
        /\ emergency_contacts # <<>>)
          => /\ nsos' = nsos + 1
             /\ result'.notified =
                   Cardinality({i \in DOMAIN sms_results' :
                                   sms_results'[i].status \in {"sent", "simulated"}})]_vars

\* C22: a resolve that succeeds on an existing alert stores status resolved,
\* and resolved is terminal: no later resolve, confirm or dispute changes the
\* status of a resolved alert.
C22_ResolvedIsTerminal ==
    [][\A a \in DOMAIN alerts :
          /\ (result'.call = "resolve_alert" /\ result'.id = a
                 /\ result'.status = "success")
                => alerts'[a].status = "resolved"
          /\ alerts[a].status = "resolved" => alerts'[a].status = "resolved"]_vars

\* C30: no emergency contact with an empty name or an empty phone is stored.
C30_NoEmptyContactStored ==
    \A i \in DOMAIN emergency_contacts :
       /\ emergency_contacts[i].name # ""
       /\ emergency_contacts[i].phone.digits # ""

\* C24: end returns safetyScore 80 for a journey whose overall_risk is high,
\* 90 for medium and 100 for any other value, always within 0..100.
C24_SafetyScoreByRisk ==
    (result.call = "end_journey" /\ result.status = "success")
       => /\ result.safety_score =
                (CASE journeys[result.id].overall_risk = "high" -> 80
                   [] journeys[result.id].overall_risk = "medium" -> 90
                   [] OTHER -> 100)
          /\ result.safety_score \in 0..100

C24_Witness ==
    /\ result.call = "end_journey"
    /\ result.status = "success"
    /\ journeys[result.id].overall_risk = "medium"
    /\ result.safety_score = 90

\* C25: end on a journey that is already completed leaves the stored status
\* and end_time unchanged.
C25_EndIsIdempotent ==
    [][\A t \in Threads :
          (/\ pc[t] = "end_journey_status"
           /\ pc'[t] = "idle"
           /\ local[t].status = "completed"
           /\ journeys[local[t].id].status = "completed")
             => journeys'[local[t].id] = journeys[local[t].id]]_vars

\* a send result that counts as notified
Delivered(r) == r.status \in {"sent", "simulated"}

\* C23: triggerEmergency on an existing journey writes status emergency,
\* appends exactly one SOS event whose contacts_notified is the list of the
\* phones whose send result is sent or simulated, and returns the length of
\* that list as notified count together with authorities_alerted = true.
C23_TriggerRecordsOneSosEvent ==
    [][/\ \A t \in Threads :
             (pc[t] = "trigger_emergency_status" /\ pc'[t] = "trigger_emergency_sos")
                => journeys'[local[t].id].status = "emergency"
       /\ (result'.call = "trigger_emergency" /\ result'.status = "success")
             => LET ok == SelectSeq(sms_results', Delivered)
                    event == sos_history'[Len(sos_history')]
                IN /\ Len(sos_history') = Len(sos_history) + 1
                   /\ SubSeq(sos_history', 1, Len(sos_history)) = sos_history
                   /\ event.journey_id = result'.id
                   /\ event.contacts_notified = [i \in 1..Len(ok) |-> ok[i].contact_phone]
                   /\ result'.notified = Len(ok)
                   /\ result'.authorities_alerted]_vars

C23_Witness ==
    /\ result.call = "trigger_emergency"
    /\ result.status = "success"
    /\ result.notified = 1
    /\ Len(sms_results) = 2
    /\ journeys[result.id].status = "emergency"
    /\ sos_history # <<>>

\* C26: every phone number handed to send_sms for an emergency contact starts
\* with '+', in the SOS fan-out and in journey-status sharing.
C26_SentPhonesHavePlus ==
    \A i \in DOMAIN sms_results : sms_results[i].contact_phone.plus

\* the ids of the rows of a table whose Haversine distance to the center is
\* at most the radius
IdsWithinRadius(rows, latitude, longitude, radius_km) ==
    {rows[i].id : i \in {k \in DOMAIN rows :
        calculate_distance(latitude, longitude, rows[k].latitude, rows[k].longitude)
           <= radius_km * 10000}}

ReturnedIds == {result.rows[i].id : i \in DOMAIN result.rows}

\* C21: getActive returns exactly the alerts that are active and within the
\* radius of the center, each once, ordered by severity rank (high, medium,
\* low) and, for equal severity, by ascending distance.
C21_ActiveAlertsExactAndOrdered ==
    result.call = "get_active_alerts"
       => /\ result.status = "success"
          /\ ReturnedIds =
                IdsWithinRadius(SelectSeq(alerts, LAMBDA row : row.status = "active"),
                                result.latitude, result.longitude, result.radius_km)
          /\ Len(result.rows) = Cardinality(ReturnedIds)
          /\ \A i, j \in DOMAIN result.rows :
                i < j =>
                   LET a == result.rows[i]
                       b == result.rows[j]
                       rank == [s \in Severities |->
                                   CASE s = "high" -> 0 [] s = "medium" -> 1 [] OTHER -> 2]
                   IN \/ rank[a.severity] < rank[b.severity]
                      \/ /\ rank[a.severity] = rank[b.severity]
                         /\ a.distance_km <= b.distance_km

\* C27: an entry of getByArea carries only id, timestamp, categories,
\* severity and distance, and the result does not depend on any report's raw
\* text, anonymized text or reporter id.
C27_AreaReportsHideTextAndReporter ==
    (result.call = "get_reports_by_area" /\ result.status = "success")
       => /\ \A i \in DOMAIN result.rows :
                DOMAIN result.rows[i] =
                   {"id", "timestamp", "categories", "severity", "distance_km"}
          /\ \A i \in DOMAIN reports :
                \A other \in {[reports EXCEPT ![i].reporter_id = "u2"],
                               [reports EXCEPT ![i].description = "other text"],
                               [reports EXCEPT ![i].anonymized_description = "other text"]} :
                   SanitizedReports(other, result.latitude, result.longitude,
                                    result.radius_km) = result.rows

C27_Witness ==
    /\ result.call = "get_reports_by_area"
    /\ result.status = "success"
    /\ Len(result.rows) = 2

\* C28: the report area search returns exactly the records whose Haversine
\* distance to the center is at most the radius; the bounding box excludes
\* none of them.
C28_AreaSearchIsExact ==
    result.call = "get_reports_by_area"
       => ReturnedIds = IdsWithinRadius(reports, result.latitude, result.longitude,
                                        result.radius_km)

C36_ResolveWithDetailsSucceeds ==
    [][(/\ result'.call = "resolve_alert"
        /\ result'.details = "given"
        /\ result'.id \in DOMAIN alerts)
          => /\ result'.status = "success"
             /\ alerts'[result'.id].status = "resolved"]_vars
\* C31: the SOS history is append-only: every step leaves the events already
\* written where and as they are, and the history never gets shorter.
C31_SosHistoryAppendOnly ==
    [][/\ Len(sos_history') >= Len(sos_history)
       /\ SubSeq(sos_history', 1, Len(sos_history)) = sos_history]_vars

\* a second SOS event was appended behind the first
C31_Witness ==
    /\ Len(sos_history) >= 2
    /\ last.op = "create_sos"

\* C35: no step changes a journey's status from completed or emergency (or
\* anything else) to active: a journey is active only from its creation on.
C35_ActiveOnlyAtCreation ==
    [][\A j \in DOMAIN journeys' :
          journeys'[j].status = "active"
             => (j \notin DOMAIN journeys \/ journeys[j].status = "active")]_vars

\* a journey that was in emergency was written again, to completed
C35_Witness ==
    \E j \in DOMAIN journeys :
       /\ <<"emergency", "completed">> \in jwrites[j]
       /\ journeys[j].status = "completed"
       /\ last = [op |-> "completed", id |-> j]

\* C39: an active journey has no end_time (NULL, written 0) and a completed
\* journey has one.
C39_EndTimeMatchesStatus ==
    \A j \in DOMAIN journeys :
       /\ journeys[j].status = "active" => journeys[j].end_time = 0
       /\ journeys[j].status = "completed" => journeys[j].end_time # 0

\* a journey completed by update_location and later ended again
C39_Witness ==
    \E j \in DOMAIN journeys :
       /\ journeys[j].status = "completed"
       /\ journeys[j].end_time = 2
       /\ result.call = "end_journey"
       /\ result.end_time = 2
\* C33: every stored report and every stored alert has a severity among low,
\* medium and high, whatever the classifier answered or the caller supplied.
C33_SeverityInEnumeration ==
    /\ \A r \in DOMAIN reports : reports[r].severity \in Severities
    /\ \A a \in DOMAIN alerts : alerts[a].severity \in Severities

\* C37: a create call that stored its alert returns success with the id of
\* the stored alert: no error leaves the handler after the INSERT, whatever
\* fails afterwards.
C37_StoredAlertIsReturned ==
    [][(result'.call = "create_alert" /\ alerts' # alerts)
          => /\ result'.status = "success"
             /\ result'.id \in DOMAIN alerts' \ DOMAIN alerts]_vars
\* the alerts get_active_alerts returns for a search centred on the alert's
\* own place, with the largest radius the alert page offers
ActiveAt(a, row) ==
    db_get_active_alerts(<<[id |-> a, latitude |-> 0, longitude |-> 0,
                            severity |-> row.severity, status |-> row.status]>>,
                         0, 0, 50)

\* C38: once an alert is disputed or resolved, no step makes it active again
\* and get_active_alerts does not return it, however many confirms follow.
C38_ClosedAlertNeverActiveAgain ==
    [][\A a \in DOMAIN alerts :
          alerts[a].status \in {"disputed", "resolved"}
             => /\ alerts'[a].status # "active"
                /\ ActiveAt(a, alerts'[a]) = <<>>]_vars

\* a disputed alert was confirmed up to the escalation and is still disputed
C38_Witness ==
    \E a \in DOMAIN alerts :
       /\ alerts[a].status = "disputed"
       /\ last = [op |-> "confirm", id |-> a]
       /\ nescal[a] = 1
       /\ ActiveAt(a, alerts[a]) = <<>>

\* C34: a report's status is the one written by the last status-writing
\* verification: disputed if that was a dispute, verified if it was a confirm
\* that left the count at 3 or more, submitted if there was none.
C34_StatusIsLastWrite ==
    \A r \in DOMAIN reports :
       reports[r].status = (CASE status_writer[r] = "dispute" -> "disputed"
                              [] status_writer[r] = "confirm" -> "verified"
                              [] OTHER -> "submitted")

\* a report verified by its confirms and disputed afterwards
C34_Witness ==
    \E r \in DOMAIN reports :
       /\ nescal[r] >= 1
       /\ status_writer[r] = "dispute"
       /\ reports[r].status = "disputed"
\* C32: no step removes a report, no step changes a field of a report other
\* than status and verification_count (updated_at goes with them), and a
\* report changes only by the write of a verify call on its own id.
C32_ReportFrame ==
    [][\A r \in DOMAIN reports :
          /\ r \in DOMAIN reports'
          /\ [reports'[r] EXCEPT !.status = reports[r].status,
                                 !.verification_count = reports[r].verification_count]
                = reports[r]
          /\ reports'[r] # reports[r]
                => \E t \in Threads :
                      /\ pc[t] = "verify_report_update"
                      /\ pc'[t] = "idle"
                      /\ local[t].id = r]_vars

\* a report was verified by three confirms next to the earlier report, which
\* is as it was submitted
C32_Witness ==
    /\ \E r \in ReportIds \cap DOMAIN reports :
          /\ reports[r].status = "verified"
          /\ reports[r].severity = "low"
          /\ last = [op |-> "confirm", id |-> r]
    /\ \A r \in EarlierReportIds :
          r \in DOMAIN reports /\ reports[r] = NewReport("medium")
\* C40: whenever the session's active_journey is set, the journey it names
\* is in the store with status active.
C40_SessionJourneyIsActive ==
    active_journey # ""
       => /\ active_journey \in DOMAIN journeys
          /\ journeys[active_journey].status = "active"
====
